---------------------------- MODULE Spec2Model ----------------------------
(***************************************************************************)
(* ViewerApplication (apps/gltf-viewer/ViewerApplication.cpp): the         *)
(* constructor, loadGltfFile, createBufferObjects, vao_init,               *)
(* createVertexArrayObjects and run() with its frame loop, as one          *)
(* sequential state machine.  C++ indices are 0-based; At(s, i) reads the  *)
(* element a C++ s[i] reads.                                               *)
(***************************************************************************)
EXTENDS Integers, Sequences, FiniteSets, TLC

VARIABLES
  lookatArgs,          \* constructor argument lookatArgs
  file,                \* the scene the loader delivers for m_gltfFilePath
  pc,                  \* position in the constructor / run()
  m_hasUserCamera,     \* member, set by the constructor
  m_userCamera,        \* member, set by the constructor
  cameraController,    \* [camera, setCalls, installed]: the controller of run()
  model,               \* run()'s local tinygltf::Model
  stderr,              \* what was written to std::cerr, in order
  loader,              \* what the scene loader reported: [called, ret, err, warn]
  retval,              \* << >> while run() runs, then << its return value >>
  gl,                  \* the OpenGL context state the program touches
  bufferObjects,       \* run()'s bufferObjects / createBufferObjects' bo
  vertexArrayObjects,  \* createVertexArrayObjects' vertexArrayObjects
  meshIndexToVaoRange, \* run()'s meshIndexToVaoRange
  idx,                 \* [i, k, offset]: loop variables of the create* functions
  shouldClose,         \* m_GLFWHandle.shouldClose()
  iterationCount,      \* the frame loop's iterationCount
  camera,              \* the frame's snapshot (const auto camera)
  viewCamera,          \* the camera drawScene derived viewMatrix from
  io,                  \* ImGui::GetIO(): [WantCaptureMouse, WantCaptureKeyboard]
  frame                \* this frame's record: [log, draws, visited, root, updates, endCamera]

vars == << lookatArgs, file, pc, m_hasUserCamera, m_userCamera, cameraController,
           model, stderr, loader, retval, gl, bufferObjects, vertexArrayObjects,
           meshIndexToVaoRange, idx, shouldClose, iterationCount, camera,
           viewCamera, io, frame >>

---------------------------------------------------------------------------
(* Bounds of the model *)

MaxFrames  == 2    \* frames the loop may run before the model stops it
MaxBuffers == 2    \* buffers of a generated scene
MaxBytes   == 2    \* bytes of a generated buffer
MaxMeshes  == 2    \* meshes of a generated scene
MaxPrims   == 2    \* primitives of a generated mesh

---------------------------------------------------------------------------
(* Program constants *)

VERTEX_ATTRIB_POSITION_IDX  == 0
VERTEX_ATTRIB_NORMAL_IDX    == 1
VERTEX_ATTRIB_TEXCOORD0_IDX == 2
GLsizeiMax                  == 2147483647

---------------------------------------------------------------------------
(* Helpers *)

At(s, i) == s[i + 1]

Size(s) == Len(s)

\* std::vector::resize(n): keeps the first n elements, value-initialises the rest
Resize(s, n) == [j \in 1..n |-> IF j <= Len(s) THEN s[j] ELSE 0]

Vec3(x, y, z) == << x, y, z >>

\* glm::mat4(1): transforms are kept as their translation column
Identity == Vec3(0, 0, 0)

---------------------------------------------------------------------------
(* Inputs: the scenes a file may hold and the look-at lists of the command *)
(* line.  A scene is a tinygltf::Model as the code reads it.               *)

\* byte j of generated buffer i; buffers differ in content as well as length
GenBuffer(i, len) == [j \in 1..len |-> 10 * (i + 1) + j]

BufferSection(lens) == [i \in 1..Len(lens) |-> [data |-> GenBuffer(i - 1, lens[i])]]

LenSeqs(maxLen, maxVal) == UNION { [1..n -> 0..maxVal] : n \in 0..maxLen }

DefaultBuffers == BufferSection(<< 2, 1 >>)

\* bufferView -> buffer is not the identity, so a handle taken by the wrong index shows
DefaultBufferViews ==
  << [buffer |-> 1, byteOffset |-> 0,  byteStride |-> 12],
     [buffer |-> 0, byteOffset |-> 16, byteStride |-> 0],
     [buffer |-> 1, byteOffset |-> 32, byteStride |-> 8] >>

DefaultAccessors ==
  << [bufferView |-> 1, byteOffset |-> 0, type |-> 3, componentType |-> 5126],
     [bufferView |-> 0, byteOffset |-> 4, type |-> 3, componentType |-> 5126],
     [bufferView |-> 2, byteOffset |-> 8, type |-> 2, componentType |-> 5126],
     [bufferView |-> 2, byteOffset |-> 0, type |-> 65, componentType |-> 5123] >>

Semantics == << "POSITION", "NORMAL", "TEXCOORD_0" >>

HasBit(b, n) == (b \div (2 ^ n)) % 2 = 1

\* the attribute map of primitive k of mesh i in variant v: over the variants
\* every subset of the three semantics occurs at every position
GenAttributes(v, i, k) ==
  LET bits == (v + 3 * i + 5 * k) % 8
      dom  == { Semantics[n + 1] : n \in { m \in 0..2 : HasBit(bits, m) } }
                \cup (IF (i + k) % 2 = 0 THEN { "TANGENT" } ELSE {})
  IN  [s \in dom |->
         CASE s = "POSITION"   -> (0 + i + k) % 3
           [] s = "NORMAL"     -> (1 + i + k) % 3
           [] s = "TEXCOORD_0" -> (2 + i + k) % 3
           [] OTHER            -> 0]

GenPrimitive(v, i, k) ==
  [attributes |-> GenAttributes(v, i, k),
   indices    |-> IF (v + k) % 2 = 0 THEN 3 ELSE -1]

MeshSection(primCounts, v) ==
  [i \in 1..Len(primCounts) |->
     [primitives |-> [k \in 1..primCounts[i] |-> GenPrimitive(v, i - 1, k - 1)]]]

\* one root without a mesh
PlainNodes == << [mesh |-> -1, children |-> << >>, translation |-> Identity] >>

PlainScenes == << [nodes |-> << 0 >>] >>

\* node 0 = A (no mesh) with child 1 = B (mesh 0, translated by (1,0,0));
\* node 2 with child 3; node 4 is a child of nothing and a root of no scene
GraphNodes ==
  << [mesh |-> -1, children |-> << 1 >>, translation |-> Identity],
     [mesh |-> 0,  children |-> << >>,   translation |-> Vec3(1, 0, 0)],
     [mesh |-> 0,  children |-> << 3 >>, translation |-> Vec3(0, 2, 0)],
     [mesh |-> 0,  children |-> << >>,   translation |-> Vec3(0, 0, 3)],
     [mesh |-> 0,  children |-> << >>,   translation |-> Identity] >>

GraphScenes == << [nodes |-> << 0 >>], [nodes |-> << 0, 2 >>], [nodes |-> << >>] >>

MkFile(bufs, views, accs, meshes, nodes, scenes, def) ==
  [buffers |-> bufs, bufferViews |-> views, accessors |-> accs, meshes |-> meshes,
   nodes |-> nodes, scenes |-> scenes, defaultScene |-> def]

\* every buffer list up to the bounds, no mesh
BufferFiles ==
  { MkFile(BufferSection(l), << >>, << >>, << >>, PlainNodes, PlainScenes, 0) :
      l \in LenSeqs(MaxBuffers, MaxBytes) }

\* every mesh list up to the bounds, in every attribute variant
MeshFiles ==
  { MkFile(DefaultBuffers, DefaultBufferViews, DefaultAccessors,
           MeshSection(c[1], c[2]), PlainNodes, PlainScenes, 0) :
      c \in LenSeqs(MaxMeshes, MaxPrims) \X (0..7) }

\* the node graph under each default scene, and under none (-1)
SceneFile(def) ==
  MkFile(DefaultBuffers, DefaultBufferViews, DefaultAccessors,
         MeshSection(<< 1 >>, 7), GraphNodes, GraphScenes, def)

SceneFiles == { SceneFile(def) : def \in -1..2 }

Files == BufferFiles \cup MeshFiles \cup SceneFiles

\* --lookat lists: none, the documented one, one with nine distinct values, and one
\* that is one float short (the constructor reads past its end)
LookatLists ==
  { << >>,
    << 0, 0, 5, 0, 0, 0, 0, 1, 0 >>,
    << 1, 2, 3, 4, 5, 6, 7, 8, 9 >>,
    << 0, 0, 5, 0, 0, 0, 0, 1 >> }

\* what a read past the end of lookatArgs may yield
Garbage == { 0, 7 }

\* every scene with no look-at list, and the graph scene with every look-at list
Inputs ==
  { << f, << >> >> : f \in Files } \cup { << SceneFile(1), a >> : a \in LookatLists }

---------------------------------------------------------------------------
(* utils/cameras.hpp: Camera and the camera controller, at their interface *)

Camera(e, c, u) == [eye |-> e, center |-> c, up |-> u]

\* a Camera nobody has set
NoCamera == Camera(<< >>, << >>, << >>)

NewController == [camera |-> NoCamera, setCalls |-> 0, installed |-> NoCamera]

SetCamera(ctl, c) ==
  [ctl EXCEPT !.camera = c, !.setCalls = @ + 1, !.installed = c]

GetCamera(ctl) == ctl.camera

\* update(dt): the camera stays (no input) or moves along -z (input); one step each
ControllerUpdate(ctl) ==
  { ctl,
    [ctl EXCEPT !.camera = Camera(Vec3(@.eye[1], @.eye[2], @.eye[3] - 1),
                                  Vec3(@.center[1], @.center[2], @.center[3] - 1),
                                  @.up)] }

---------------------------------------------------------------------------
(* The OpenGL calls the program makes, on the context state gl *)

Slots == 0..2

Max(S) == CHOOSE x \in S : \A y \in S : y <= x

\* glGen*: n names that are not in use (the next ones above those in use)
GenNames(used, n) ==
  LET base == IF used = {} THEN 0 ELSE Max(used) IN [j \in 1..n |-> base + j]

Range(s) == { s[j] : j \in DOMAIN s }

NewBuffer == [size |-> 0, data |-> << >>, writes |-> 0, immutable |-> FALSE]

NewVao ==
  [enabled       |-> [s \in Slots |-> FALSE],
   buffer        |-> [s \in Slots |-> 0],
   pointer       |-> [s \in Slots |-> << >>],
   elementBuffer |-> 0]

FreshContext ==
  [bufferNames  |-> {},          \* names glGenBuffers has returned
   vaoNames     |-> {},          \* names glGenVertexArrays has returned
   store        |-> << >>,       \* buffer name -> buffer object
   vaos         |-> << >>,       \* vertex-array name -> vertex-array object
   arrayBuffer  |-> 0,           \* GL_ARRAY_BUFFER binding
   vertexArray  |-> 0,           \* vertex-array binding
   program      |-> "none",      \* program in use
   programBinds |-> 0,           \* glUseProgram calls so far
   depthTest    |-> FALSE,
   clears       |-> 0,           \* glClear calls so far
   swaps        |-> 0,           \* buffer swaps so far
   errors       |-> 0]           \* GL errors raised so far

glGenBuffers(g, names) ==
  [g EXCEPT !.bufferNames = @ \cup Range(names)]

glGenVertexArrays(g, names) ==
  [g EXCEPT !.vaoNames = @ \cup Range(names)]

\* binding a name for the first time creates its object
glBindArrayBuffer(g, name) ==
  [g EXCEPT !.arrayBuffer = name,
            !.store = IF name = 0 \/ name \in DOMAIN @ THEN @ ELSE (name :> NewBuffer) @@ @]

\* GL_ELEMENT_ARRAY_BUFFER is state of the bound vertex array
glBindElementArrayBuffer(g, name) ==
  LET g1 == [g EXCEPT !.store =
               IF name = 0 \/ name \in DOMAIN @ THEN @ ELSE (name :> NewBuffer) @@ @]
  IN  IF g.vertexArray = 0
        THEN g1
        ELSE [g1 EXCEPT !.vaos[g.vertexArray].elementBuffer = name]

\* glBufferStorage(GL_ARRAY_BUFFER, size, data, 0): immutable storage for the bound
\* buffer; an error, and no change, when none is bound or its storage is immutable
glBufferStorage(g, size, data) ==
  IF g.arrayBuffer = 0 \/ g.store[g.arrayBuffer].immutable
    THEN [g EXCEPT !.errors = @ + 1]
    ELSE [g EXCEPT !.store[g.arrayBuffer] =
            [size |-> size, data |-> data, writes |-> @.writes + 1, immutable |-> TRUE]]

glBindVertexArray(g, name) ==
  [g EXCEPT !.vertexArray = name,
            !.vaos = IF name = 0 \/ name \in DOMAIN @ THEN @ ELSE (name :> NewVao) @@ @]

glEnableVertexAttribArray(g, index) ==
  IF g.vertexArray = 0
    THEN [g EXCEPT !.errors = @ + 1]
    ELSE [g EXCEPT !.vaos[g.vertexArray].enabled[index] = TRUE]

\* the attribute takes the buffer bound to GL_ARRAY_BUFFER at the time of the call
glVertexAttribPointer(g, index, size, type, stride, pointer) ==
  IF g.vertexArray = 0
    THEN [g EXCEPT !.errors = @ + 1]
    ELSE [g EXCEPT !.vaos[g.vertexArray].buffer[index] = g.arrayBuffer,
                   !.vaos[g.vertexArray].pointer[index] =
                      [size |-> size, type |-> type, stride |-> stride,
                       offset |-> pointer]]

---------------------------------------------------------------------------
(* ViewerApplication::ViewerApplication *)

\* the nine floats the constructor reads: lookatArgs[0..8]; a list shorter than
\* nine is read past its end, and those reads may yield anything
LookatReads(args) ==
  IF Len(args) >= 9
    THEN { SubSeq(args, 1, 9) }
    ELSE { args \o t : t \in [1..(9 - Len(args)) -> Garbage] }

\* the constructor with center and up taken from each other's floats
UserCameraSwapped(a) ==
  Camera(Vec3(a[1], a[2], a[3]), Vec3(a[7], a[8], a[9]), Vec3(a[4], a[5], a[6]))

UserCamera(a) ==
  Camera(Vec3(a[1], a[2], a[3]), Vec3(a[4], a[5], a[6]), Vec3(a[7], a[8], a[9]))

DefaultCamera == Camera(Vec3(0, 0, 0), Vec3(0, 0, -1), Vec3(0, 1, 0))

Construct ==
  /\ pc = "constructor"
  /\ IF lookatArgs # << >>
       THEN /\ m_hasUserCamera' = TRUE
            /\ \E a \in LookatReads(lookatArgs) : m_userCamera' = UserCamera(a)
       ELSE UNCHANGED << m_hasUserCamera, m_userCamera >>
  /\ pc' = "run"
  /\ UNCHANGED << lookatArgs, file, cameraController, model, stderr, loader, retval, gl,
                  bufferObjects, vertexArrayObjects, meshIndexToVaoRange, idx,
                  shouldClose, iterationCount, camera, viewCamera, io, frame >>

---------------------------------------------------------------------------
(* ViewerApplication::run, up to the camera seeding *)

SeedCamera(hasUserCamera, userCamera) ==
  IF hasUserCamera THEN userCamera ELSE DefaultCamera

RunBegin ==
  /\ pc = "run"
  /\ cameraController' =
       SetCamera(NewController, SeedCamera(m_hasUserCamera, m_userCamera))
  /\ pc' = "loadGltfFile"
  /\ UNCHANGED << lookatArgs, file, m_hasUserCamera, m_userCamera, model, stderr, loader,
                  retval, gl, bufferObjects, vertexArrayObjects, meshIndexToVaoRange,
                  idx, shouldClose, iterationCount, camera, viewCamera, io, frame >>

---------------------------------------------------------------------------
(* ViewerApplication::loadGltfFile and run's use of it *)

\* what loadGltfFile writes to std::cerr
LoadDiagnostics(err, warn) ==
  (IF err THEN << "Error" >> ELSE << >>) \o (IF warn THEN << "Warning" >> ELSE << >>)

\* loadGltfFile failing on a warning as well
LoadResultStrict(ret, err, warn) == ret /\ ~warn

\* what loadGltfFile returns: the loader's ret
LoadResult(ret, err, warn) == ret

\* the loader reports ret, a possibly empty err and a possibly empty warn
LoadGltfFile ==
  /\ pc = "loadGltfFile"
  /\ \E ret \in BOOLEAN, err \in BOOLEAN, warn \in BOOLEAN :
       /\ loader' = [called |-> TRUE, ret |-> ret, err |-> err, warn |-> warn]
       /\ IF LoadResult(ret, err, warn)
         THEN /\ model' = file
              /\ stderr' = stderr \o LoadDiagnostics(err, warn)
              /\ pc' = "createBufferObjects"
              /\ UNCHANGED retval
         ELSE /\ stderr' = stderr \o LoadDiagnostics(err, warn) \o << "Failed" >>
              /\ retval' = << -1 >>
              /\ pc' = "returned"
              /\ UNCHANGED model
  /\ UNCHANGED << lookatArgs, file, m_hasUserCamera, m_userCamera, cameraController,
                  gl, bufferObjects, vertexArrayObjects, meshIndexToVaoRange, idx,
                  shouldClose, iterationCount, camera, viewCamera, io, frame >>

---------------------------------------------------------------------------
(* ViewerApplication::createBufferObjects *)

CreateBufferObjectsGen ==
  /\ pc = "createBufferObjects"
  /\ LET len == Size(model.buffers)
         bo  == GenNames(gl.bufferNames, len)
     IN  /\ bufferObjects' = bo
         /\ gl' = glGenBuffers(gl, bo)
  /\ idx' = [idx EXCEPT !.i = 0]
  /\ pc' = "createBufferObjects_loop"
  /\ UNCHANGED << lookatArgs, file, m_hasUserCamera, m_userCamera, cameraController,
                  model, stderr, loader, retval, vertexArrayObjects, meshIndexToVaoRange,
                  shouldClose, iterationCount, camera, viewCamera, io, frame >>

\* the loop's pass without its glBindBuffer
UploadBufferUnbound(g, bo, buffers, i) ==
  glBufferStorage(g, Size(At(buffers, i).data), At(buffers, i).data)

\* one pass of the loop: bind bo[i], give it the storage of buffers[i]
UploadBuffer(g, bo, buffers, i) ==
  glBufferStorage(glBindArrayBuffer(g, At(bo, i)),
                  Size(At(buffers, i).data), At(buffers, i).data)

CreateBufferObjectsLoop ==
  /\ pc = "createBufferObjects_loop"
  /\ idx.i < Size(model.buffers)
  /\ gl' = UploadBuffer(gl, bufferObjects, model.buffers, idx.i)
  /\ idx' = [idx EXCEPT !.i = @ + 1]
  /\ UNCHANGED << lookatArgs, file, pc, m_hasUserCamera, m_userCamera,
                  cameraController, model, stderr, loader, retval, bufferObjects,
                  vertexArrayObjects, meshIndexToVaoRange, shouldClose,
                  iterationCount, camera, viewCamera, io, frame >>

CreateBufferObjectsReturn ==
  /\ pc = "createBufferObjects_loop"
  /\ idx.i >= Size(model.buffers)
  /\ gl' = glBindArrayBuffer(gl, 0)
  /\ pc' = "createVertexArrayObjects"
  /\ UNCHANGED << lookatArgs, file, m_hasUserCamera, m_userCamera, cameraController,
                  model, stderr, loader, retval, bufferObjects, vertexArrayObjects,
                  meshIndexToVaoRange, idx, shouldClose, iterationCount, camera,
                  viewCamera, io, frame >>

---------------------------------------------------------------------------
(* vao_init *)

\* vao_init binding the buffer index where the buffer's handle belongs
VaoInitByIndex(g, m, primitive, bos, str, index) ==
  IF str \in DOMAIN primitive.attributes
    THEN LET accessorIdx == primitive.attributes[str]
             accessor    == At(m.accessors, accessorIdx)
             bufferView  == At(m.bufferViews, accessor.bufferView)
             bufferIdx   == bufferView.buffer
             g1          == glEnableVertexAttribArray(g, index)
             g2          == glBindArrayBuffer(g1, bufferIdx)
             byteOffset  == bufferView.byteOffset + accessor.byteOffset
         IN  glVertexAttribPointer(g2, index, accessor.type, accessor.componentType,
                                   bufferView.byteStride, byteOffset)
    ELSE g

VaoInit(g, m, primitive, bos, str, index) ==
  IF str \in DOMAIN primitive.attributes
    THEN LET accessorIdx == primitive.attributes[str]
             accessor    == At(m.accessors, accessorIdx)
             bufferView  == At(m.bufferViews, accessor.bufferView)
             bufferIdx   == bufferView.buffer
             g1          == glEnableVertexAttribArray(g, index)
             g2          == glBindArrayBuffer(g1, At(bos, bufferIdx))
             byteOffset  == bufferView.byteOffset + accessor.byteOffset
         IN  glVertexAttribPointer(g2, index, accessor.type, accessor.componentType,
                                   bufferView.byteStride, byteOffset)
    ELSE g

---------------------------------------------------------------------------
(* ViewerApplication::createVertexArrayObjects *)

\* the (GLsizei) cast of a size_t below 2^32
ToGLsizei(n) ==
  IF n <= GLsizeiMax THEN n ELSE ((n - GLsizeiMax) - 1) - GLsizeiMax - 1

\* the range with its begin taken after the resize
VaoRangeAfterResize(offset, primitive_len) ==
  [begin |-> ToGLsizei(offset + primitive_len), count |-> ToGLsizei(primitive_len)]

VaoRange(offset, primitive_len) ==
  [begin |-> ToGLsizei(offset), count |-> ToGLsizei(primitive_len)]

\* std::vector<VaoRange>::resize: new elements are value-initialised
ResizeRanges(s, n) ==
  [j \in 1..n |-> IF j <= Len(s) THEN s[j] ELSE [begin |-> 0, count |-> 0]]

CreateVertexArrayObjectsBegin ==
  /\ pc = "createVertexArrayObjects"
  /\ vertexArrayObjects' = << >>
  /\ meshIndexToVaoRange' = ResizeRanges(meshIndexToVaoRange, Size(model.meshes))
  /\ idx' = [i |-> 0, k |-> 0, offset |-> 0]
  /\ pc' = "createVertexArrayObjects_mesh"
  /\ UNCHANGED << lookatArgs, file, m_hasUserCamera, m_userCamera, cameraController,
                  model, stderr, loader, retval, gl, bufferObjects, shouldClose,
                  iterationCount, camera, viewCamera, io, frame >>

\* glGenVertexArrays(n, vertexArrayObjects.data() + offset) after resize(offset + n)
WithGenerated(vaos, offset, names) ==
  [j \in 1..(offset + Len(names)) |->
     IF j <= offset THEN Resize(vaos, offset + Len(names))[j] ELSE names[j - offset]]

\* the head of the mesh loop's body: offset, the mesh's range, its handles
CreateVertexArrayObjectsMesh ==
  /\ pc = "createVertexArrayObjects_mesh"
  /\ idx.i < Size(model.meshes)
  /\ LET offset        == Size(vertexArrayObjects)
         primitive_len == Size(At(model.meshes, idx.i).primitives)
         names         == GenNames(gl.vaoNames, primitive_len)
     IN  /\ meshIndexToVaoRange' =
              [meshIndexToVaoRange EXCEPT ![idx.i + 1] = VaoRange(offset, primitive_len)]
         /\ vertexArrayObjects' = WithGenerated(vertexArrayObjects, offset, names)
         /\ gl' = glGenVertexArrays(gl, names)
         /\ idx' = [idx EXCEPT !.k = 0, !.offset = offset]
  /\ pc' = "createVertexArrayObjects_primitive"
  /\ UNCHANGED << lookatArgs, file, m_hasUserCamera, m_userCamera, cameraController,
                  model, stderr, loader, retval, bufferObjects, shouldClose, iterationCount,
                  camera, viewCamera, io, frame >>

\* the index buffer of a primitive that has indices
BindIndices(g, m, primitive, bos) ==
  IF primitive.indices >= 0
    THEN LET accessor   == At(m.accessors, primitive.indices)
             bufferView == At(m.bufferViews, accessor.bufferView)
         IN  glBindElementArrayBuffer(g, At(bos, bufferView.buffer))
    ELSE g

\* one pass of the primitive loop
InitPrimitive(g, m, vaos, bos, i, offset, k) ==
  LET primitive == At(At(m.meshes, i).primitives, k)
      g0 == glBindVertexArray(g, At(vaos, offset + k))
      g1 == VaoInit(g0, m, primitive, bos, "POSITION", VERTEX_ATTRIB_POSITION_IDX)
      g2 == VaoInit(g1, m, primitive, bos, "NORMAL", VERTEX_ATTRIB_NORMAL_IDX)
      g3 == VaoInit(g2, m, primitive, bos, "TEXCOORD_0", VERTEX_ATTRIB_TEXCOORD0_IDX)
  IN  BindIndices(g3, m, primitive, bos)

CreateVertexArrayObjectsPrimitive ==
  /\ pc = "createVertexArrayObjects_primitive"
  /\ idx.k < Size(At(model.meshes, idx.i).primitives)
  /\ gl' = InitPrimitive(gl, model, vertexArrayObjects, bufferObjects,
                         idx.i, idx.offset, idx.k)
  /\ idx' = [idx EXCEPT !.k = @ + 1]
  /\ UNCHANGED << lookatArgs, file, pc, m_hasUserCamera, m_userCamera,
                  cameraController, model, stderr, loader, retval, bufferObjects,
                  vertexArrayObjects, meshIndexToVaoRange, shouldClose,
                  iterationCount, camera, viewCamera, io, frame >>

\* the primitive loop ends: ++i
CreateVertexArrayObjectsMeshEnd ==
  /\ pc = "createVertexArrayObjects_primitive"
  /\ idx.k >= Size(At(model.meshes, idx.i).primitives)
  /\ idx' = [idx EXCEPT !.i = @ + 1]
  /\ pc' = "createVertexArrayObjects_mesh"
  /\ UNCHANGED << lookatArgs, file, m_hasUserCamera, m_userCamera, cameraController,
                  model, stderr, loader, retval, gl, bufferObjects, vertexArrayObjects,
                  meshIndexToVaoRange, shouldClose, iterationCount, camera,
                  viewCamera, io, frame >>

CreateVertexArrayObjectsReturn ==
  /\ pc = "createVertexArrayObjects_mesh"
  /\ idx.i >= Size(model.meshes)
  /\ gl' = glBindVertexArray(gl, 0)
  /\ pc' = "setup"
  /\ UNCHANGED << lookatArgs, file, m_hasUserCamera, m_userCamera, cameraController,
                  model, stderr, loader, retval, bufferObjects, vertexArrayObjects,
                  meshIndexToVaoRange, idx, shouldClose, iterationCount, camera,
                  viewCamera, io, frame >>

\* glEnable(GL_DEPTH_TEST); glslProgram.use();
SetupGLState ==
  /\ pc = "setup"
  /\ gl' = [gl EXCEPT !.depthTest = TRUE, !.program = "glslProgram",
                      !.programBinds = @ + 1]
  /\ frame' = [frame EXCEPT !.log = Append(@, "use")]
  /\ pc' = "loop"
  /\ UNCHANGED << lookatArgs, file, m_hasUserCamera, m_userCamera, cameraController,
                  model, stderr, loader, retval, bufferObjects, vertexArrayObjects,
                  meshIndexToVaoRange, idx, shouldClose, iterationCount, camera,
                  viewCamera, io >>

---------------------------------------------------------------------------
(* run: drawScene and the frame loop *)

NewFrame(f) ==
  [log |-> << >>, draws |-> << >>, visited |-> << >>, root |-> 0, updates |-> 0,
   afterUpdate |-> f.afterUpdate]

\* drawNode(nodeIdx, parentMatrix): the nodes it visits and the draws it issues.
\* Its body is empty: the call visits nodeIdx and nothing else, and draws nothing.
DrawNode(m, nodeIdx, parentMatrix) ==
  [visited |-> << nodeIdx >>, draws |-> << >>]

\* the root list drawScene walks: none without a default scene
Roots(m) ==
  IF m.defaultScene >= 0 THEN At(m.scenes, m.defaultScene).nodes ELSE << >>

\* the loop's exit: the window is to close, run returns 0
LoopExit ==
  /\ pc = "loop"
  /\ shouldClose
  /\ retval' = << 0 >>
  /\ pc' = "returned"
  /\ UNCHANGED << lookatArgs, file, m_hasUserCamera, m_userCamera, cameraController,
                  model, stderr, loader, gl, bufferObjects, vertexArrayObjects,
                  meshIndexToVaoRange, idx, shouldClose, iterationCount, camera,
                  viewCamera, io, frame >>

\* a frame that updates the controller before it takes the snapshot
FrameBeginUpdateFirst ==
  /\ pc = "loop"
  /\ ~shouldClose
  /\ iterationCount < MaxFrames
  /\ \E c \in ControllerUpdate(cameraController) :
       /\ cameraController' = c
       /\ camera' = GetCamera(c)
  /\ frame' = [NewFrame(frame) EXCEPT !.log = << "snapshot" >>]
  /\ pc' = "drawScene"
  /\ UNCHANGED << lookatArgs, file, m_hasUserCamera, m_userCamera, model, stderr,
                  loader, retval, gl, bufferObjects, vertexArrayObjects,
                  meshIndexToVaoRange, idx, shouldClose, iterationCount, viewCamera,
                  io >>

\* a frame begins: glfwGetTime, then the snapshot of the controller's camera
FrameBegin ==
  /\ pc = "loop"
  /\ ~shouldClose
  /\ iterationCount < MaxFrames
  /\ camera' = GetCamera(cameraController)
  /\ frame' = [NewFrame(frame) EXCEPT !.log = << "snapshot" >>]
  /\ pc' = "drawScene"
  /\ UNCHANGED << lookatArgs, file, m_hasUserCamera, m_userCamera, cameraController,
                  model, stderr, loader, retval, gl, bufferObjects, vertexArrayObjects,
                  meshIndexToVaoRange, idx, shouldClose, iterationCount, viewCamera,
                  io >>

\* drawScene without its glClear
DrawSceneBeginNoClear ==
  /\ pc = "drawScene"
  /\ viewCamera' = camera
  /\ frame' = [frame EXCEPT !.root = 0]
  /\ pc' = IF Size(Roots(model)) > 0 THEN "drawScene_roots" ELSE "gui"
  /\ UNCHANGED << lookatArgs, file, m_hasUserCamera, m_userCamera, cameraController,
                  model, stderr, loader, retval, gl, bufferObjects, vertexArrayObjects,
                  meshIndexToVaoRange, idx, shouldClose, iterationCount, camera, io >>

\* drawScene(camera) up to the root loop: viewport, clear, view matrix
DrawSceneBegin ==
  /\ pc = "drawScene"
  /\ gl' = [gl EXCEPT !.clears = @ + 1]
  /\ viewCamera' = camera
  /\ frame' = [frame EXCEPT !.log = Append(@, "clear"), !.root = 0]
  /\ pc' = IF Size(Roots(model)) > 0 THEN "drawScene_roots" ELSE "gui"
  /\ UNCHANGED << lookatArgs, file, m_hasUserCamera, m_userCamera, cameraController,
                  model, stderr, loader, retval, bufferObjects, vertexArrayObjects,
                  meshIndexToVaoRange, idx, shouldClose, iterationCount, camera, io >>

\* one pass of the root loop: drawNode(roots[i], glm::mat4(1))
DrawSceneRoot ==
  /\ pc = "drawScene_roots"
  /\ LET r == DrawNode(model, At(Roots(model), frame.root), Identity)
     IN  frame' = [frame EXCEPT !.log = Append(@, "drawNode"),
                                !.visited = @ \o r.visited,
                                !.draws = @ \o r.draws,
                                !.root = @ + 1]
  /\ pc' = IF frame.root + 1 < Size(Roots(model)) THEN "drawScene_roots" ELSE "gui"
  /\ UNCHANGED << lookatArgs, file, m_hasUserCamera, m_userCamera, cameraController,
                  model, stderr, loader, retval, gl, bufferObjects, vertexArrayObjects,
                  meshIndexToVaoRange, idx, shouldClose, iterationCount, camera,
                  viewCamera, io >>

\* imguiNewFrame .. imguiRenderFrame: the overlay runs and settles its focus claims
Gui ==
  /\ pc = "gui"
  /\ \E m \in BOOLEAN, k \in BOOLEAN :
       io' = [WantCaptureMouse |-> m, WantCaptureKeyboard |-> k]
  /\ frame' = [frame EXCEPT !.log = Append(@, "gui")]
  /\ pc' = "pollEvents"
  /\ UNCHANGED << lookatArgs, file, m_hasUserCamera, m_userCamera, cameraController,
                  model, stderr, loader, retval, gl, bufferObjects, vertexArrayObjects,
                  meshIndexToVaoRange, idx, shouldClose, iterationCount, camera,
                  viewCamera >>

\* glfwPollEvents: keyCallback (Escape released) or the window's close button may
\* ask the window to close
PollEvents ==
  /\ pc = "pollEvents"
  /\ \E close \in BOOLEAN : shouldClose' = (shouldClose \/ close)
  /\ frame' = [frame EXCEPT !.log = Append(@, "poll")]
  /\ pc' = "update"
  /\ UNCHANGED << lookatArgs, file, m_hasUserCamera, m_userCamera, cameraController,
                  model, stderr, loader, retval, gl, bufferObjects, vertexArrayObjects,
                  meshIndexToVaoRange, idx, iterationCount, camera, viewCamera, io >>

\* focus only when both pointer and keyboard are claimed
GuiHasFocusBoth(wantMouse, wantKeyboard) == wantMouse /\ wantKeyboard

GuiHasFocus(wantMouse, wantKeyboard) == wantMouse \/ wantKeyboard

\* the camera update, unless the overlay has the focus
UpdateCamera ==
  /\ pc = "update"
  /\ IF ~GuiHasFocus(io.WantCaptureMouse, io.WantCaptureKeyboard)
       THEN \E c \in ControllerUpdate(cameraController) :
              /\ cameraController' = c
              /\ frame' = [frame EXCEPT !.log = Append(@, "update"),
                                        !.updates = @ + 1,
                                        !.afterUpdate = GetCamera(c)]
       ELSE /\ frame' = [frame EXCEPT !.afterUpdate = GetCamera(cameraController)]
            /\ UNCHANGED cameraController
  /\ pc' = "swapBuffers"
  /\ UNCHANGED << lookatArgs, file, m_hasUserCamera, m_userCamera, model, stderr, loader,
                  retval, gl, bufferObjects, vertexArrayObjects, meshIndexToVaoRange,
                  idx, shouldClose, iterationCount, camera, viewCamera, io >>

\* m_GLFWHandle.swapBuffers(); ++iterationCount
SwapBuffers ==
  /\ pc = "swapBuffers"
  /\ gl' = [gl EXCEPT !.swaps = @ + 1]
  /\ frame' = [frame EXCEPT !.log = Append(@, "swap")]
  /\ iterationCount' = iterationCount + 1
  /\ pc' = "loop"
  /\ UNCHANGED << lookatArgs, file, m_hasUserCamera, m_userCamera, cameraController,
                  model, stderr, loader, retval, bufferObjects, vertexArrayObjects,
                  meshIndexToVaoRange, idx, shouldClose, camera, viewCamera, io >>

---------------------------------------------------------------------------
(* The program *)

EmptyModel ==
  MkFile(<< >>, << >>, << >>, << >>, << >>, << >>, -1)

Init ==
  /\ \E inp \in Inputs : file = inp[1] /\ lookatArgs = inp[2]
  /\ pc = "constructor"
  /\ m_hasUserCamera = FALSE
  /\ m_userCamera = NoCamera
  /\ cameraController = NewController
  /\ model = EmptyModel
  /\ stderr = << >>
  /\ loader = [called |-> FALSE, ret |-> FALSE, err |-> FALSE, warn |-> FALSE]
  /\ retval = << >>
  /\ gl = FreshContext
  /\ bufferObjects = << >>
  /\ vertexArrayObjects = << >>
  /\ meshIndexToVaoRange = << >>
  /\ idx = [i |-> 0, k |-> 0, offset |-> 0]
  /\ shouldClose = FALSE
  /\ iterationCount = 0
  /\ camera = NoCamera
  /\ viewCamera = NoCamera
  /\ io = [WantCaptureMouse |-> FALSE, WantCaptureKeyboard |-> FALSE]
  /\ frame = [log |-> << >>, draws |-> << >>, visited |-> << >>, root |-> 0,
              updates |-> 0, afterUpdate |-> NoCamera]

Next ==
  \/ Construct
  \/ RunBegin
  \/ LoadGltfFile
  \/ CreateBufferObjectsGen
  \/ CreateBufferObjectsLoop
  \/ CreateBufferObjectsReturn
  \/ CreateVertexArrayObjectsBegin
  \/ CreateVertexArrayObjectsMesh
  \/ CreateVertexArrayObjectsPrimitive
  \/ CreateVertexArrayObjectsMeshEnd
  \/ CreateVertexArrayObjectsReturn
  \/ SetupGLState
  \/ LoopExit
  \/ FrameBegin
  \/ DrawSceneBegin
  \/ DrawSceneRoot
  \/ Gui
  \/ PollEvents
  \/ UpdateCamera
  \/ SwapBuffers

Spec == Init /\ [][Next]_vars

---------------------------------------------------------------------------
(* Positions of run() *)

FramePcs ==
  { "loop", "drawScene", "drawScene_roots", "gui", "pollEvents", "update",
    "swapBuffers" }

\* createBufferObjects has returned
AfterCreateBufferObjects ==
  \/ pc \in { "createVertexArrayObjects", "createVertexArrayObjects_mesh",
              "createVertexArrayObjects_primitive", "setup" } \cup FramePcs
  \/ pc = "returned" /\ retval = << 0 >>

\* createVertexArrayObjects has returned
AfterCreateVertexArrayObjects ==
  \/ pc \in { "setup" } \cup FramePcs
  \/ pc = "returned" /\ retval = << 0 >>

\* the current frame's drawScene has computed its view matrix and the frame's
\* update step has not run yet
FrameDrawn == pc \in { "drawScene_roots", "gui", "pollEvents", "update" }

\* the current frame's traversal has ended
TraversalDone == pc \in { "gui", "pollEvents", "update", "swapBuffers" }

\* a whole frame has just ended
FrameEnded == pc = "loop" /\ iterationCount > 0

PrimitivesOf(i) == At(model.meshes, i).primitives

RECURSIVE PrimitivesBefore(_)
PrimitivesBefore(i) ==
  IF i = 0 THEN 0 ELSE PrimitivesBefore(i - 1) + Size(PrimitivesOf(i - 1))

Injective(s) == \A a, b \in DOMAIN s : s[a] = s[b] => a = b

---------------------------------------------------------------------------
(* Claims *)

\* C1: once createVertexArrayObjects has returned, every mesh's range has the
\* mesh's primitive count, begins where the primitives of the meshes before it
\* end, so the ranges are disjoint and tile [0, number of handles) in mesh
\* order, and the handles at these positions are distinct generated names
\* (one per primitive), meshes without primitives included.
C1_VaoRangesTile ==
  AfterCreateVertexArrayObjects =>
    LET n == Size(model.meshes) IN
    /\ Size(meshIndexToVaoRange) = n
    /\ \A i \in 0..(n - 1) :
         /\ At(meshIndexToVaoRange, i).count = Size(PrimitivesOf(i))
         /\ At(meshIndexToVaoRange, i).begin = PrimitivesBefore(i)
    /\ \A i, j \in 0..(n - 1) :
         i < j => At(meshIndexToVaoRange, i).begin + At(meshIndexToVaoRange, i).count
                    <= At(meshIndexToVaoRange, j).begin
    /\ Size(vertexArrayObjects) = PrimitivesBefore(n)
    /\ Injective(vertexArrayObjects)
    /\ Range(vertexArrayObjects) = gl.vaoNames
    /\ 0 \notin Range(vertexArrayObjects)

C1_Witness ==
  /\ AfterCreateVertexArrayObjects
  /\ Size(model.meshes) = 2
  /\ Size(PrimitivesOf(0)) = 0
  /\ Size(PrimitivesOf(1)) = 2
  /\ At(meshIndexToVaoRange, 1) = [begin |-> 0, count |-> 2]

\* C2: once createBufferObjects has returned there is one handle per buffer, the
\* handles are distinct, and handle i holds storage of buffer i's length and
\* bytes, written exactly once; no storage is ever written twice and no call
\* has failed.
C2_BufferObjectsMatch ==
  /\ \A h \in DOMAIN gl.store : gl.store[h].writes <= 1
  /\ AfterCreateBufferObjects =>
       /\ Size(bufferObjects) = Size(model.buffers)
       /\ Injective(bufferObjects)
       /\ gl.errors = 0
       /\ \A i \in 0..(Size(model.buffers) - 1) :
            LET h == At(bufferObjects, i) IN
            /\ h \in DOMAIN gl.store
            /\ gl.store[h].size = Len(At(model.buffers, i).data)
            /\ gl.store[h].data = At(model.buffers, i).data
            /\ gl.store[h].writes = 1

C2_Witness ==
  /\ pc = "returned"
  /\ retval = << 0 >>
  /\ iterationCount > 0
  /\ Size(model.buffers) = 2
  /\ Len(At(model.buffers, 0).data) = 1
  /\ Len(At(model.buffers, 1).data) = 2
  /\ gl.store[At(bufferObjects, 1)].data = At(model.buffers, 1).data

\* the steps of a whole frame in the order the loop performs them
FrameSteps(roots, updated) ==
  << "snapshot", "clear" >> \o [j \in 1..roots |-> "drawNode"] \o << "gui", "poll" >>
    \o (IF updated THEN << "update" >> ELSE << >>) \o << "swap" >>

\* the steps of a whole frame in the order the design document gives
DocumentedSteps(roots, updated) ==
  << "clear", "use", "snapshot" >> \o [j \in 1..roots |-> "drawNode"]
    \o << "gui", "poll" >> \o (IF updated THEN << "update" >> ELSE << >>) \o << "swap" >>

OverlayHasFocus == io.WantCaptureMouse \/ io.WantCaptureKeyboard

C4_OneFrameLatency ==
  /\ FrameDrawn /\ iterationCount = 0 => viewCamera = cameraController.installed
  /\ FrameDrawn /\ iterationCount > 0 => viewCamera = frame.afterUpdate
  /\ pc \in { "drawScene", "drawScene_roots", "gui", "pollEvents", "update" } =>
       /\ GetCamera(cameraController) = camera
       /\ frame.updates = 0
       /\ \A j \in DOMAIN frame.log : frame.log[j] # "update"

C4_Witness ==
  /\ FrameDrawn
  /\ iterationCount = 1
  /\ viewCamera = frame.afterUpdate
  /\ viewCamera # cameraController.installed

\* C5: in a frame the controller is updated at most once, and exactly when the
\* overlay claims neither the pointer nor the keyboard; when it claims either,
\* the controller's camera at the end of the frame is the frame's snapshot.
C5_UpdateIffNoFocus ==
  /\ frame.updates <= 1
  /\ pc = "swapBuffers" \/ FrameEnded =>
       /\ frame.updates = 1 <=> ~io.WantCaptureMouse /\ ~io.WantCaptureKeyboard
       /\ io.WantCaptureMouse \/ io.WantCaptureKeyboard =>
            GetCamera(cameraController) = camera

C5_Witness ==
  /\ FrameEnded
  /\ io.WantCaptureKeyboard
  /\ ~io.WantCaptureMouse
  /\ frame.updates = 0
  /\ GetCamera(cameraController) = camera

\* C8: run returns a negative value exactly when the loader reported failure,
\* and then nothing was created on the GPU and no frame was rendered; it
\* returns 0 only once the loop has ended on a requested close; a load that
\* succeeds is never aborted, warnings or not.
C8_ExitCodes ==
  /\ pc = "returned" <=> retval # << >>
  /\ retval # << >> => retval[1] \in { -1, 0 }
  /\ retval # << >> /\ retval[1] < 0 <=> pc = "returned" /\ loader.called /\ ~loader.ret
  /\ retval = << -1 >> =>
       /\ gl.bufferNames = {} /\ gl.vaoNames = {}
       /\ DOMAIN gl.store = {} /\ DOMAIN gl.vaos = {}
       /\ bufferObjects = << >> /\ vertexArrayObjects = << >>
       /\ iterationCount = 0 /\ gl.clears = 0 /\ gl.swaps = 0
  /\ retval = << 0 >> => shouldClose /\ loader.ret /\ model = file
  /\ loader.called /\ loader.ret => retval # << -1 >> /\ model = file
  /\ loader.called /\ ~loader.ret => retval = << -1 >>

C8_Witness ==
  /\ pc = "returned"
  /\ retval = << -1 >>
  /\ ~loader.ret
  /\ loader.err
  /\ Size(file.buffers) > 0
  /\ gl.bufferNames = {}

\* the buffer an attribute of a primitive resolves to: accessor -> bufferView -> buffer
BufferOfAttribute(primitive, str) ==
  At(model.bufferViews, At(model.accessors, primitive.attributes[str]).bufferView).buffer

\* C9: once createVertexArrayObjects has returned, the vertex array of primitive
\* k of mesh i (the handle at begin_i + k) exists and has slot 0, 1, 2 enabled
\* exactly when the primitive has POSITION, NORMAL, TEXCOORD_0, an enabled slot
\* being bound to the handle of the buffer its attribute resolves to; a missing
\* attribute leaves its slot disabled and the primitive keeps its vertex array.
C9_AttributeSlots ==
  AfterCreateVertexArrayObjects =>
    \A i \in 0..(Size(model.meshes) - 1) :
      \A k \in 0..(Size(PrimitivesOf(i)) - 1) :
        LET primitive == At(PrimitivesOf(i), k)
            handle    == At(vertexArrayObjects, PrimitivesBefore(i) + k)
        IN  /\ handle \in DOMAIN gl.vaos
            /\ \A n \in Slots :
                 /\ gl.vaos[handle].enabled[n]
                      <=> Semantics[n + 1] \in DOMAIN primitive.attributes
                 /\ gl.vaos[handle].enabled[n] =>
                      gl.vaos[handle].buffer[n] =
                        At(bufferObjects, BufferOfAttribute(primitive, Semantics[n + 1]))

C9_Witness ==
  /\ AfterCreateVertexArrayObjects
  /\ Size(model.meshes) = 2
  /\ Size(PrimitivesOf(1)) = 2
  /\ LET primitive == At(PrimitivesOf(1), 0)
         handle    == At(vertexArrayObjects, PrimitivesBefore(1) + 0)
     IN  /\ DOMAIN primitive.attributes = { "POSITION", "TEXCOORD_0" }
         /\ gl.vaos[handle].enabled = (0 :> TRUE @@ 1 :> FALSE @@ 2 :> TRUE)
         /\ gl.vaos[handle].buffer[0] # gl.vaos[handle].buffer[2]

\* the camera a nine-float list, or no list, asks for
LookatCamera(a) ==
  IF a = << >>
    THEN [eye |-> << 0, 0, 0 >>, center |-> << 0, 0, -1 >>, up |-> << 0, 1, 0 >>]
    ELSE [eye |-> << a[1], a[2], a[3] >>, center |-> << a[4], a[5], a[6] >>,
          up |-> << a[7], a[8], a[9] >>]

\* C10: with nine look-at floats the camera installed before the first frame,
\* and drawn in it, has them as eye, center and up (eye (0,0,5), center (0,0,0),
\* up (0,1,0) for 0,0,5,0,0,0,0,1,0); with none it is eye (0,0,0), center
\* (0,0,-1), up (0,1,0); setCamera is called once before the loop and never again.
C10_LookatSeedsCamera ==
  /\ cameraController.setCalls <= 1
  /\ pc \notin { "constructor", "run" } => cameraController.setCalls = 1
  /\ Len(lookatArgs) \in { 0, 9 } /\ pc \notin { "constructor", "run" } =>
       /\ cameraController.installed = LookatCamera(lookatArgs)
       /\ iterationCount = 0 /\ pc # "swapBuffers" =>
            GetCamera(cameraController) = LookatCamera(lookatArgs)
       /\ iterationCount = 0 /\ FrameDrawn => viewCamera = LookatCamera(lookatArgs)
  /\ lookatArgs = << 0, 0, 5, 0, 0, 0, 0, 1, 0 >> /\ iterationCount = 0 /\ FrameDrawn =>
       viewCamera = [eye |-> << 0, 0, 5 >>, center |-> << 0, 0, 0 >>,
                     up |-> << 0, 1, 0 >>]

C10_Witness ==
  /\ lookatArgs = << 1, 2, 3, 4, 5, 6, 7, 8, 9 >>
  /\ iterationCount = 0
  /\ pc = "gui"
  /\ viewCamera.center = << 4, 5, 6 >>
  /\ cameraController.setCalls = 1

\* local transform after parent transform, transforms being translations
Compose(parent, local) ==
  Vec3(parent[1] + local[1], parent[2] + local[2], parent[3] + local[3])

RECURSIVE DocumentedVisit(_, _)
RECURSIVE DocumentedVisitAll(_, _, _)
\* the nodes the documented traversal visits from node n: n, then its children's
\* subtrees in declaration order
DocumentedVisit(m, n) ==
  << n >> \o DocumentedVisitAll(m, At(m.nodes, n).children, 1)

DocumentedVisitAll(m, nodes, j) ==
  IF j > Len(nodes)
    THEN << >>
    ELSE DocumentedVisit(m, nodes[j]) \o DocumentedVisitAll(m, nodes, j + 1)

RECURSIVE DocumentedDraws(_, _, _)
RECURSIVE DocumentedDrawsAll(_, _, _, _)
\* the draws the documented traversal issues from node n under a parent transform:
\* one per primitive of the node's mesh, with the node's world transform
DocumentedDraws(m, n, parent) ==
  LET node  == At(m.nodes, n)
      world == Compose(parent, node.translation)
      own   == IF node.mesh >= 0
                 THEN LET r == At(meshIndexToVaoRange, node.mesh)
                      IN  [k \in 1..r.count |->
                             [vao   |-> At(vertexArrayObjects, r.begin + k - 1),
                              world |-> world]]
                 ELSE << >>
  IN  own \o DocumentedDrawsAll(m, node.children, 1, world)

DocumentedDrawsAll(m, nodes, j, parent) ==
  IF j > Len(nodes)
    THEN << >>
    ELSE DocumentedDraws(m, nodes[j], parent)
           \o DocumentedDrawsAll(m, nodes, j + 1, parent)

\* C6 (as stated): a frame's traversal issues, for every node with a mesh that
\* is reachable from the default scene's roots, one draw per primitive of the
\* mesh's range with the node's world transform; for the scene A -> B this is
\* exactly one draw, with world transform translate(1,0,0).
C6_DrawPerPrimitive ==
  TraversalDone =>
    /\ frame.draws = DocumentedDrawsAll(model, Roots(model), 1, Identity)
    /\ Roots(model) = << 0 >> /\ model.nodes = GraphNodes =>
         /\ Len(frame.draws) = 1
         /\ frame.draws[1].world = Vec3(1, 0, 0)

\* C7 (as stated): with the default scene's root list [0, 2] a frame's
\* traversal visits node 0, node 2 and every node of their subtrees, roots and
\* children in declaration order, and no other node; without a default scene
\* it visits nothing and draws nothing.
C7_VisitsSubtrees ==
  TraversalDone =>
    /\ Roots(model) = << 0, 2 >> =>
         frame.visited = DocumentedVisitAll(model, Roots(model), 1)
    /\ model.defaultScene < 0 => frame.visited = << >> /\ frame.draws = << >>

====
